---- MODULE Spec2Model ----
(***************************************************************************)
(* A model of the back end of bc-compiler: the per-function register       *)
(* allocator (src/src/register_allocator.c) working on the AST built by    *)
(* the parser (src/src/parser.c), and the ARM code generator               *)
(* (src/src/codegen_arm.c) whose output is run on an abstract register     *)
(* machine.                                                                *)
(*                                                                         *)
(* The AST is a tree of records [type, lexeme, int_value, children]; a     *)
(* node is named by its path of 0-based child indices from the             *)
(* compilation unit.  The annotation slots of a node (register_assigned,   *)
(* source_register, requires_load, requires_store, stack_slot) live in the *)
(* map ann, keyed by path; `written` records which of the three slots that *)
(* create_node leaves uninitialised have been assigned since.              *)
(***************************************************************************)
EXTENDS Integers, Sequences, FiniteSets, TLC

\* ------------------------------------------------------------------------
\* Program constants
\* ------------------------------------------------------------------------
FIRST_VAR_REGISTER == 4
LAST_VAR_REGISTER == 11
MAX_REGISTERS == 12
MAX_PARAMS == 4

\* ------------------------------------------------------------------------
\* Bounds of the model
\* ------------------------------------------------------------------------
\* Longest run of leading `let <name><int> = <literal>;` declarations.
MaxDecls == 9
\* Longest sequence of further statements after the leading declarations.
MaxTail == 2
\* The most leading declarations of a function of a two-function unit.
MaxUnitDecls == 2

PoolRegs == FIRST_VAR_REGISTER..LAST_VAR_REGISTER
AllRegs == 0..(MAX_REGISTERS - 1)
NULL == "NULL"

Min(S) == CHOOSE x \in S : \A y \in S : x <= y
Max(S) == CHOOSE x \in S : \A y \in S : x >= y

\* ------------------------------------------------------------------------
\* AST (parser.c)
\* ------------------------------------------------------------------------
Node(type, lexeme, int_value, children) ==
    [type |-> type, lexeme |-> lexeme, int_value |-> int_value, children |-> children]

IntLiteral(n) == Node("NODE_INT_LITERAL", "int_literal", n, <<>>)
Identifier(name) == Node("NODE_IDENTIFIER", name, 0, <<>>)
Add(left, right) == Node("NODE_ADD", "+", 0, <<left, right>>)
FunctionCall(name, args) == Node("NODE_FUNCTION_CALL", name, 0, args)
VarIntType == Node("NODE_VAR_INT_TYPE", "int", 0, <<>>)
ReturnIntType == Node("NODE_RETURN_INT_TYPE", "int", 0, <<>>)
TypeParam(name) == Node("NODE_TYPE_PARAM", name, 0, <<VarIntType>>)
VarDecl(name, expr) == Node("NODE_VAR_DECL", "let", 0, <<Identifier(name), VarIntType, expr>>)
Assignment(name, expr) == Node("NODE_ASSIGNMENT", name, 0, <<Identifier(name), expr>>)
Return(expr) == Node("NODE_RETURN", "return", 0, <<expr>>)
ExpressionStmt(expr) == Node("NODE_EXPRESSION", NULL, 0, <<expr>>)

\* parse_expression: primary (+ primary)*, left associative.
RECURSIVE ParseExpression(_)
ParseExpression(primaries) ==
    IF Len(primaries) = 1 THEN primaries[1]
    ELSE Add(ParseExpression(SubSeq(primaries, 1, Len(primaries) - 1)),
             primaries[Len(primaries)])

\* parse_function: name, generic parameters, return type, statements.
Function(name, params, body) ==
    Node("NODE_FUNCTION", "fun", 0,
         <<Identifier(name)>> \o [i \in 1..Len(params) |-> TypeParam(params[i])]
            \o <<ReturnIntType>> \o body)

CompilationUnit(functions) == Node("NODE_COMPILATION_UNIT", NULL, 0, functions)

\* children[i] of a node, 0-based as in the source.
Child(node, i) == node.children[i + 1]
ChildCount(node) == Len(node.children)

\* ------------------------------------------------------------------------
\* Annotation slots of a node
\* ------------------------------------------------------------------------
\* create_node: register_assigned and source_register are set to -1;
\* requires_load, requires_store and stack_slot are left as malloc gave them.
create_node ==
    [register_assigned |-> -1, source_register |-> -1,
     requires_load |-> FALSE, requires_store |-> FALSE, stack_slot |-> 0,
     written |-> {}]

Ann(a, path) == IF path \in DOMAIN a THEN a[path] ELSE create_node

PutAnn(a, path, rec) ==
    IF path \in DOMAIN a THEN [a EXCEPT ![path] = rec] ELSE a @@ (path :> rec)

SetReg(a, path, reg) ==
    PutAnn(a, path, [Ann(a, path) EXCEPT !.register_assigned = reg])

\* ------------------------------------------------------------------------
\* FunctionContext (register_allocator.c)
\* ------------------------------------------------------------------------
ZeroContext ==
    [reg_variable_map |-> [r \in AllRegs |-> NULL],
     reg_usage |-> [r \in AllRegs |-> 0],
     stack_map |-> <<>>,
     stack_slot_counter |-> 0,
     live_ranges |-> <<>>]

NoFatal == <<>>

\* The allocator's state threaded through a traversal: the function context,
\* the annotations and the fatal error (abort) raised so far, if any.
AllocState(ctx, a, fatal) == [ctx |-> ctx, ann |-> a, fatal |-> fatal]

Aborted(st) == st.fatal # NoFatal

find_live_range(ctx, var_name) ==
    LET hits == {i \in 1..Len(ctx.live_ranges) : ctx.live_ranges[i].var_name = var_name}
    IN IF hits = {} THEN -1 ELSE Min(hits) - 1

\* Returns the state with the new range appended; its index is the old count.
add_live_range(st, var_name) ==
    IF Aborted(st) THEN st
    ELSE IF find_live_range(st.ctx, var_name) # -1
    THEN [st EXCEPT !.fatal = <<"Redeclaration of variable", var_name>>]
    ELSE [st EXCEPT !.ctx.live_ranges = Append(@,
            [var_name |-> var_name, start_idx |-> -1, end_idx |-> -1,
             assigned_reg |-> -1, current_value_reg |-> -1,
             stack_slot |-> -1, is_spilled |-> FALSE])]

find_stack_slot(ctx, var_name) ==
    LET hits == {i \in 1..Len(ctx.stack_map) : ctx.stack_map[i].var_name = var_name}
    IN IF hits = {} THEN -1 ELSE ctx.stack_map[Min(hits)].stack_slot

add_stack_slot(st, var_name) ==
    IF Aborted(st) THEN st
    ELSE IF find_stack_slot(st.ctx, var_name) # -1
    THEN [st EXCEPT !.fatal = <<"Redeclaration of variable", var_name>>]
    ELSE [st EXCEPT !.ctx.stack_map = Append(@,
            [var_name |-> var_name, stack_slot |-> st.ctx.stack_slot_counter]),
                    !.ctx.stack_slot_counter = @ + 1]

update_variable_location(st, var_name, reg) ==
    LET lr == find_live_range(st.ctx, var_name)
    IN IF Aborted(st) \/ lr = -1 THEN st
       ELSE [st EXCEPT !.ctx.live_ranges[lr + 1].current_value_reg = reg]

\* annotate_live_ranges: pre-order, one index per visited node.  The result
\* is the pair of the state and the next index.
RECURSIVE annotate_live_ranges(_, _, _)
RECURSIVE annotate_children(_, _, _)
annotate_children(node, i, acc) ==
    IF Aborted(acc.st) \/ i >= ChildCount(node) THEN acc
    ELSE annotate_children(node, i + 1,
            annotate_live_ranges(Child(node, i), acc.idx, acc.st))

annotate_live_ranges(node, idx, st) ==
    LET var == IF node.type = "NODE_VAR_DECL" THEN Child(node, 0).lexeme ELSE node.lexeme
        st1 == IF node.type \in {"NODE_VAR_DECL", "NODE_IDENTIFIER"}
                  /\ find_live_range(st.ctx, var) = -1
               THEN add_live_range(st, var) ELSE st
        lr == find_live_range(st1.ctx, var)
        old == st1.ctx.live_ranges[lr + 1]
        st2 == IF Aborted(st1) THEN st1
               ELSE IF node.type = "NODE_VAR_DECL"
               THEN [st1 EXCEPT !.ctx.live_ranges[lr + 1].start_idx = idx,
                                !.ctx.live_ranges[lr + 1].end_idx = idx]
               ELSE IF node.type = "NODE_IDENTIFIER"
               THEN [st1 EXCEPT
                       !.ctx.live_ranges[lr + 1].start_idx =
                           IF old.start_idx = -1 THEN idx ELSE old.start_idx,
                       !.ctx.live_ranges[lr + 1].end_idx =
                           IF old.end_idx < idx THEN idx ELSE old.end_idx]
               ELSE st1
    IN annotate_children(node, 0, [st |-> st2, idx |-> idx + 1])

find_variable_in_registers(var_name, ctx) ==
    LET hits == {i \in PoolRegs : ctx.reg_variable_map[i] # NULL
                                  /\ ctx.reg_variable_map[i] = var_name}
    IN IF hits = {} THEN -1 ELSE Min(hits)

\* allocate_register, second loop: pool register i is bound to a name; the
\* name is marked spilled and given the next stack slot unless it is spilled
\* already, and the register goes to for_var.
evict_register(for_var, st, i) ==
    LET ctx == st.ctx
        spilled_var == ctx.reg_variable_map[i]
        lr == find_live_range(ctx, spilled_var)
        spill == lr # -1 /\ ~ctx.live_ranges[lr + 1].is_spilled
        st1 == IF spill
               THEN add_stack_slot(
                      [st EXCEPT !.ctx.live_ranges[lr + 1].is_spilled = TRUE,
                                 !.ctx.live_ranges[lr + 1].stack_slot =
                                      ctx.stack_slot_counter],
                      spilled_var)
               ELSE st
    IN [st |-> IF Aborted(st1) THEN st1
               ELSE [st1 EXCEPT !.ctx.reg_usage[i] = 1,
                                !.ctx.reg_variable_map[i] = for_var],
        reg |-> i,
        spilled_slot |-> IF spill THEN ctx.stack_slot_counter ELSE -1]

\* An allocator that evicts the occupant of the highest bound pool register.
allocate_register_evict_last(for_var, st) ==
    LET free == {i \in PoolRegs : st.ctx.reg_usage[i] = 0}
        bound == {i \in PoolRegs : st.ctx.reg_variable_map[i] # NULL}
    IN IF Aborted(st) THEN [st |-> st, reg |-> -1, spilled_slot |-> -1]
       ELSE IF free # {}
       THEN [st |-> [st EXCEPT !.ctx.reg_usage[Min(free)] = 1,
                               !.ctx.reg_variable_map[Min(free)] = for_var],
             reg |-> Min(free), spilled_slot |-> -1]
       ELSE IF bound # {} THEN evict_register(for_var, st, Max(bound))
       ELSE [st |-> st, reg |-> FIRST_VAR_REGISTER, spilled_slot |-> -1]

\* An allocator whose first loop starts at r0.
allocate_register_from_r0(for_var, st) ==
    LET free == {i \in AllRegs : st.ctx.reg_usage[i] = 0}
        bound == {i \in PoolRegs : st.ctx.reg_variable_map[i] # NULL}
    IN IF Aborted(st) THEN [st |-> st, reg |-> -1, spilled_slot |-> -1]
       ELSE IF free # {}
       THEN [st |-> [st EXCEPT !.ctx.reg_usage[Min(free)] = 1,
                               !.ctx.reg_variable_map[Min(free)] = for_var],
             reg |-> Min(free), spilled_slot |-> -1]
       ELSE IF bound # {} THEN evict_register(for_var, st, Min(bound))
       ELSE [st |-> st, reg |-> FIRST_VAR_REGISTER, spilled_slot |-> -1]

\* allocate_register: the lowest free pool register, else the lowest pool
\* register bound to a name, whose occupant is evicted.  The result carries
\* the register and the value left in *spilled_slot (-1 when not written).
allocate_register(for_var, st) ==
    LET free == {i \in PoolRegs : st.ctx.reg_usage[i] = 0}
        bound == {i \in PoolRegs : st.ctx.reg_variable_map[i] # NULL}
    IN IF Aborted(st) THEN [st |-> st, reg |-> -1, spilled_slot |-> -1]
       ELSE IF free # {}
       THEN [st |-> [st EXCEPT !.ctx.reg_usage[Min(free)] = 1,
                               !.ctx.reg_variable_map[Min(free)] = for_var],
             reg |-> Min(free), spilled_slot |-> -1]
       ELSE IF bound # {} THEN evict_register(for_var, st, Min(bound))
       ELSE [st |-> st, reg |-> FIRST_VAR_REGISTER, spilled_slot |-> -1]

\* allocate_expr, case NODE_IDENTIFIER, the three branches.  st1 is the
\* state once the name has a live range; got is the register the name is
\* bound to, or else the one allocate_register gives, with the state after.
annotate_identifier(var, path, st1, got) ==
    LET lr == find_live_range(st1.ctx, var)
        current_reg == st1.ctx.live_ranges[lr + 1].current_value_reg
        stack_slot == find_stack_slot(st1.ctx, var)
        old == Ann(st1.ann, path)
        spilled == got.st.ctx.live_ranges[lr + 1].is_spilled
    IN IF Aborted(st1) THEN st1
       ELSE IF current_reg # -1
       THEN [st1 EXCEPT !.ann = PutAnn(@, path,
                [old EXCEPT !.register_assigned = current_reg,
                            !.source_register = current_reg,
                            !.requires_load = FALSE,
                            !.written = @ \cup {"requires_load"}])]
       ELSE IF Aborted(got.st) THEN got.st
       ELSE IF stack_slot # -1
       THEN update_variable_location(
              [got.st EXCEPT !.ann = PutAnn(@, path,
                 [old EXCEPT !.register_assigned = got.reg,
                             !.requires_load = TRUE,
                             !.stack_slot = stack_slot,
                             !.source_register = -1,
                             !.written = @ \cup {"requires_load", "stack_slot"}])],
              var, got.reg)
       ELSE LET st3 == [got.st EXCEPT !.ann = PutAnn(@, path,
                 [old EXCEPT !.register_assigned = got.reg,
                             !.requires_load = spilled,
                             !.stack_slot =
                                IF spilled
                                THEN got.st.ctx.live_ranges[lr + 1].stack_slot ELSE -1,
                             !.source_register = IF spilled THEN -1 ELSE got.reg,
                             !.written = @ \cup {"requires_load", "stack_slot"}])]
            IN IF spilled THEN st3
               ELSE update_variable_location(st3, var, got.reg)

\* allocate_expr, case NODE_IDENTIFIER, the register: reg when the name is
\* bound to one, else allocate_register (called in the branches that need it).
identifier_register(var, path, st1) ==
    annotate_identifier(var, path, st1,
        IF find_variable_in_registers(var, st1.ctx) = -1
        THEN allocate_register(var, st1)
        ELSE [st |-> st1, reg |-> find_variable_in_registers(var, st1.ctx),
              spilled_slot |-> -1])

\* allocate_expr, case NODE_IDENTIFIER: the live range is added when missing.
allocate_identifier(node, path, st) ==
    identifier_register(node.lexeme, path,
        IF find_live_range(st.ctx, node.lexeme) = -1
        THEN add_live_range(st, node.lexeme) ELSE st)

RECURSIVE allocate_expr(_, _, _)
RECURSIVE allocate_expr_children(_, _, _, _)
allocate_expr_children(node, path, i, st) ==
    IF Aborted(st) \/ i >= ChildCount(node) THEN st
    ELSE allocate_expr_children(node, path, i + 1,
            allocate_expr(Child(node, i), Append(path, i), st))

allocate_expr(node, path, st) ==
    IF Aborted(st) THEN st
    ELSE IF node.type = "NODE_INT_LITERAL"
    THEN [st EXCEPT !.ann = SetReg(@, path, -1)]
    ELSE IF node.type = "NODE_IDENTIFIER"
    THEN allocate_identifier(node, path, st)
    ELSE IF node.type = "NODE_ADD"
    THEN LET st1 == allocate_expr(Child(node, 1), Append(path, 1),
                       allocate_expr(Child(node, 0), Append(path, 0), st))
             got == allocate_register("add_result", st1)
         IN IF Aborted(got.st) THEN got.st
            ELSE [got.st EXCEPT !.ann = SetReg(@, path, got.reg)]
    ELSE IF node.type = "NODE_FUNCTION_CALL"
    THEN LET st1 == allocate_expr_children(node, path, 0, st)
         IN IF Aborted(st1) THEN st1
            ELSE [st1 EXCEPT !.ann = SetReg(@, path, 0)]
    ELSE st

\* allocate_registers, case NODE_VAR_DECL, from `node->register_assigned =
\* reg` on: lr is the name's live range found on entry, got the result of
\* allocate_register(var, ctx, &spilled_slot).
bind_var_decl(var, path, lr, got) ==
    LET reg == got.reg
        spilled_slot == got.spilled_slot
        st2 == [got.st EXCEPT !.ctx.reg_variable_map[reg] = var,
                              !.ctx.reg_usage[reg] = 1]
        st3 == IF lr # -1
               THEN [st2 EXCEPT !.ctx.live_ranges[lr + 1].assigned_reg = reg,
                                !.ctx.live_ranges[lr + 1].current_value_reg = reg]
               ELSE st2
        a1 == SetReg(SetReg(st3.ann, path, reg), Append(path, 2), reg)
        old == Ann(a1, path)
    IN IF Aborted(got.st) THEN got.st
       ELSE IF spilled_slot # -1
       THEN update_variable_location(
              [st3 EXCEPT !.ann = PutAnn(a1, path,
                              [old EXCEPT !.requires_store = TRUE,
                                          !.stack_slot = spilled_slot,
                                          !.written = @ \cup {"requires_store", "stack_slot"}]),
                          !.ctx.live_ranges[lr + 1].is_spilled = TRUE,
                          !.ctx.live_ranges[lr + 1].stack_slot = spilled_slot],
              var, -1)
       ELSE update_variable_location(
              [st3 EXCEPT !.ann = PutAnn(a1, path,
                              [old EXCEPT !.requires_store = FALSE,
                                          !.written = @ \cup {"requires_store"}])],
              var, reg)

\* A declaration that requests the variable's register before it allocates
\* the initialiser.
allocate_var_decl_name_first(node, path, st) ==
    bind_var_decl(Child(node, 0).lexeme, path,
                  find_live_range(st.ctx, Child(node, 0).lexeme),
                  [st |-> allocate_expr(Child(node, 2), Append(path, 2),
                                        allocate_register(Child(node, 0).lexeme, st).st),
                   reg |-> allocate_register(Child(node, 0).lexeme, st).reg,
                   spilled_slot |-> allocate_register(Child(node, 0).lexeme, st).spilled_slot])

\* allocate_registers, case NODE_VAR_DECL: the initialiser, then a register
\* for the variable.
allocate_var_decl(node, path, st) ==
    bind_var_decl(Child(node, 0).lexeme, path,
                  find_live_range(st.ctx, Child(node, 0).lexeme),
                  allocate_register(Child(node, 0).lexeme,
                      allocate_expr(Child(node, 2), Append(path, 2), st)))

\* allocate_registers, case NODE_ASSIGNMENT, after allocate_expr(expr).
assign_register(var, path, st1) ==
    LET found == find_variable_in_registers(var, st1.ctx)
        lr == find_live_range(st1.ctx, var)
        got == IF found = -1 THEN allocate_register(var, st1)
               ELSE [st |-> st1, reg |-> found, spilled_slot |-> -1]
    IN IF Aborted(st1) THEN st1
       ELSE IF lr = -1
       THEN [st1 EXCEPT !.fatal = <<"Assignment to undeclared variable", var>>]
       ELSE IF Aborted(got.st) THEN got.st
       ELSE update_variable_location(
              [got.st EXCEPT !.ann = SetReg(SetReg(@, path, got.reg),
                                            Append(path, 1), got.reg)],
              var, got.reg)

\* allocate_registers, case NODE_ASSIGNMENT.
allocate_assignment(node, path, st) ==
    assign_register(Child(node, 0).lexeme, path,
                    allocate_expr(Child(node, 1), Append(path, 1), st))

\* allocate_registers for every node below a function (the NODE_FUNCTION
\* case is the actions EnterFunction, AnnotateLiveRanges, AllocateChild and
\* LeaveFunction).
RECURSIVE allocate_registers(_, _, _)
RECURSIVE allocate_registers_children(_, _, _, _)
allocate_registers_children(node, path, i, st) ==
    IF Aborted(st) \/ i >= ChildCount(node) THEN st
    ELSE allocate_registers_children(node, path, i + 1,
            allocate_registers(Child(node, i), Append(path, i), st))

allocate_registers(node, path, st) ==
    IF Aborted(st) THEN st
    ELSE IF node.type = "NODE_TYPE_PARAM" THEN st
    ELSE IF node.type = "NODE_VAR_DECL" THEN allocate_var_decl(node, path, st)
    ELSE IF node.type = "NODE_RETURN"
    THEN IF ChildCount(node) > 0
         THEN allocate_expr(Child(node, 0), Append(path, 0), st) ELSE st
    ELSE IF node.type = "NODE_FUNCTION_CALL"
    THEN LET st1 == allocate_expr_children(node, path, 0, st)
         IN IF Aborted(st1) THEN st1
            ELSE [st1 EXCEPT !.ann = SetReg(@, path, 0)]
    ELSE IF node.type = "NODE_ASSIGNMENT" THEN allocate_assignment(node, path, st)
    ELSE allocate_registers_children(node, path, 0, st)

\* The parameter loop of the NODE_FUNCTION case: a stack slot per
\* NODE_TYPE_PARAM child, in order.
RECURSIVE add_param_slots(_, _, _)
add_param_slots(node, i, st) ==
    IF Aborted(st) \/ i >= ChildCount(node) THEN st
    ELSE add_param_slots(node, i + 1,
            IF Child(node, i).type = "NODE_TYPE_PARAM"
            THEN add_stack_slot(st, Child(node, i).lexeme) ELSE st)

ParamCount(node) ==
    Cardinality({i \in 1..Len(node.children) : node.children[i].type = "NODE_TYPE_PARAM"})

\* A declaration without the initialiser: the context keeps what the storage
\* held.
init_child_ctx_stale(stale) == stale

\* `FunctionContext child_ctx = {0};`: the new context does not depend on what
\* the storage held before (stale: the context of the function before).
init_child_ctx(stale) == ZeroContext

\* The NODE_FUNCTION case up to the end of the parameter loop: a zeroed
\* context, the parameters' slots, stack_slot_counter = param_count.
enter_function(node, a, stale) ==
    LET st1 == add_param_slots(node, 0, AllocState(init_child_ctx(stale), a, NoFatal))
    IN IF Aborted(st1) THEN st1
       ELSE [st1 EXCEPT !.ctx.stack_slot_counter = ParamCount(node)]

\* ------------------------------------------------------------------------
\* Code generator (codegen_arm.c)
\* ------------------------------------------------------------------------
\* One line of the assembly listing.  Fields an instruction does not use are 0
\* (NULL for the label).
Ins(op, rd, rn, rm, imm, label) ==
    [op |-> op, rd |-> rd, rn |-> rn, rm |-> rm, imm |-> imm, label |-> label]

Global(name) == Ins(".global", 0, 0, 0, 0, name)          \* .global main
Label(name) == Ins("label", 0, 0, 0, 0, name)             \* <name>:
PushLr == Ins("push_lr", 0, 0, 0, 0, NULL)                \* push {lr}
PopPc == Ins("pop_pc", 0, 0, 0, 0, NULL)                  \* pop {pc}
SubSp(n) == Ins("sub_sp", 0, 0, 0, n, NULL)               \* sub sp, sp, #n
AddSp(n) == Ins("add_sp", 0, 0, 0, n, NULL)               \* add sp, sp, #n
MovImm(rd, imm) == Ins("mov_imm", rd, 0, 0, imm, NULL)    \* mov rd, #imm
MovReg(rd, rm) == Ins("mov", rd, 0, rm, 0, NULL)          \* mov rd, rm
AddReg(rd, rn, rm) == Ins("add", rd, rn, rm, 0, NULL)     \* add rd, rn, rm
Ldr(rd, off) == Ins("ldr", rd, 0, 0, off, NULL)           \* ldr rd, [sp, #off]
Str(rd, off) == Ins("str", rd, 0, 0, off, NULL)           \* str rd, [sp, #off]
Bl(name) == Ins("bl", 0, 0, 0, 0, name)                   \* bl <name>

\* What a read of a slot that nothing has assigned since malloc may yield.
\* One pattern g stands for the whole heap of one compilation.
GarbageSlots == {-1, 0, 2}
Garbage == [requires_load : BOOLEAN, requires_store : BOOLEAN, stack_slot : GarbageSlots]

\* Reads of the annotation slots, as the generator sees them.
requires_load(a, path, g) ==
    IF "requires_load" \in Ann(a, path).written
    THEN Ann(a, path).requires_load ELSE g.requires_load

requires_store(a, path, g) ==
    IF "requires_store" \in Ann(a, path).written
    THEN Ann(a, path).requires_store ELSE g.requires_store

stack_slot(a, path, g) ==
    IF "stack_slot" \in Ann(a, path).written
    THEN Ann(a, path).stack_slot ELSE g.stack_slot

register_assigned(a, path) == Ann(a, path).register_assigned

emit_load_if_needed(path, a, g) ==
    IF requires_load(a, path, g)
    THEN <<Ldr(register_assigned(a, path), stack_slot(a, path, g) * 4)>>
    ELSE <<>>

\* A generator that stores every declared variable, spilled or not.
emit_store_always(path, a, g) ==
    <<Str(register_assigned(a, path), stack_slot(a, path, g) * 4)>>

emit_store_if_needed(path, a, g) ==
    IF requires_store(a, path, g)
    THEN <<Str(register_assigned(a, path), stack_slot(a, path, g) * 4)>>
    ELSE <<>>

RECURSIVE codegen_expr(_, _, _, _)
RECURSIVE codegen_call_args(_, _, _, _, _)
\* A generator that moves every argument that has a register, in place or not.
codegen_call_args_always(node, path, i, a, g) ==
    IF i >= ChildCount(node) THEN <<>>
    ELSE LET arg == Append(path, i)
         IN codegen_expr(Child(node, i), arg, a, g)
              \o emit_load_if_needed(arg, a, g)
              \o (IF register_assigned(a, arg) >= 0
                  THEN <<MovReg(i, register_assigned(a, arg))>> ELSE <<>>)
              \o codegen_call_args(node, path, i + 1, a, g)

codegen_call_args(node, path, i, a, g) ==
    IF i >= ChildCount(node) THEN <<>>
    ELSE LET arg == Append(path, i)
         IN codegen_expr(Child(node, i), arg, a, g)
              \o emit_load_if_needed(arg, a, g)
              \o (IF register_assigned(a, arg) # i /\ register_assigned(a, arg) >= 0
                  THEN <<MovReg(i, register_assigned(a, arg))>> ELSE <<>>)
              \o codegen_call_args(node, path, i + 1, a, g)

codegen_expr(node, path, a, g) ==
    IF node.type = "NODE_INT_LITERAL"
    THEN IF register_assigned(a, path) >= 0
         THEN <<MovImm(register_assigned(a, path), node.int_value)>> ELSE <<>>
    ELSE IF node.type = "NODE_IDENTIFIER"
    THEN emit_load_if_needed(path, a, g)
    ELSE IF node.type = "NODE_ADD"
    THEN LET l == Append(path, 0)
             r == Append(path, 1)
             left == register_assigned(a, l)
             right == register_assigned(a, r)
             result == register_assigned(a, path)
         IN codegen_expr(Child(node, 0), l, a, g) \o emit_load_if_needed(l, a, g)
              \o codegen_expr(Child(node, 1), r, a, g) \o emit_load_if_needed(r, a, g)
              \o (IF result >= 0 /\ left >= 0 /\ right >= 0
                  THEN <<AddReg(result, left, right)>> ELSE <<>>)
    ELSE IF node.type = "NODE_FUNCTION_CALL"
    THEN codegen_call_args(node, path, 0, a, g)
           \o <<Bl(node.lexeme)>>
           \o (IF register_assigned(a, path) # 0 /\ register_assigned(a, path) >= 0
               THEN <<MovReg(register_assigned(a, path), 0)>> ELSE <<>>)
    ELSE <<>>

codegen_stmt(node, path, a, g) ==
    IF node.type = "NODE_VAR_DECL"
    THEN codegen_expr(Child(node, 2), Append(path, 2), a, g)
           \o emit_store_if_needed(path, a, g)
    ELSE IF node.type = "NODE_RETURN"
    THEN LET e == Append(path, 0)
         IN codegen_expr(Child(node, 0), e, a, g) \o emit_load_if_needed(e, a, g)
              \o (IF Child(node, 0).type = "NODE_INT_LITERAL"
                  THEN <<MovImm(0, Child(node, 0).int_value)>>
                  ELSE IF register_assigned(a, e) >= 0
                  THEN <<MovReg(0, register_assigned(a, e))>> ELSE <<>>)
    ELSE IF node.type = "NODE_EXPRESSION"
    THEN codegen_expr(Child(node, 0), Append(path, 0), a, g)
           \o emit_load_if_needed(Append(path, 0), a, g)
    ELSE <<>>

\* assign_stack_offset over the first MAX_PARAMS parameters and then over the
\* declared names: the list of distinct names, the i-th at offset 4 * i.
RECURSIVE Locals(_, _, _, _)
Locals(node, i, params_only, acc) ==
    IF i >= ChildCount(node) THEN acc
    ELSE LET c == Child(node, i)
             name == IF params_only THEN c.lexeme ELSE Child(c, 0).lexeme
             counted == IF params_only
                        THEN c.type = "NODE_TYPE_PARAM"
                             /\ Cardinality({j \in 0..(i - 1) :
                                   Child(node, j).type = "NODE_TYPE_PARAM"}) < MAX_PARAMS
                        ELSE c.type = "NODE_VAR_DECL"
         IN Locals(node, i + 1, params_only,
                   IF counted /\ ~(\E j \in 1..Len(acc) : acc[j] = name)
                   THEN Append(acc, name) ELSE acc)

GenParamCount(node) == IF ParamCount(node) < MAX_PARAMS THEN ParamCount(node) ELSE MAX_PARAMS

\* One iteration of the statement loop of codegen_function: what is printed
\* for child i.
codegen_child(node, fpath, i, a, g) ==
    IF Child(node, i).type \in {"NODE_VAR_DECL", "NODE_RETURN", "NODE_EXPRESSION"}
    THEN codegen_stmt(Child(node, i), Append(fpath, i), a, g) ELSE <<>>

RECURSIVE codegen_statements(_, _, _, _, _)
codegen_statements(node, fpath, i, a, g) ==
    IF i >= ChildCount(node) THEN <<>>
    ELSE codegen_child(node, fpath, i, a, g)
         \o codegen_statements(node, fpath, i + 1, a, g)

codegen_function(node, fpath, a, g) ==
    IF node.type # "NODE_FUNCTION" THEN <<>>
    ELSE LET locals == Locals(node, 0, FALSE, Locals(node, 0, TRUE, <<>>))
             stack_size == 4 * Len(locals)
             param_count == GenParamCount(node)
         IN <<Label(Child(node, 0).lexeme), PushLr>>
              \o (IF stack_size > 0 THEN <<SubSp(stack_size)>> ELSE <<>>)
              \o [i \in 1..param_count |-> Str(i - 1, 4 * (i - 1))]
              \o codegen_statements(node, fpath, 0, a, g)
              \o (IF stack_size > 0 THEN <<AddSp(stack_size)>> ELSE <<>>)
              \o <<PopPc>>

RECURSIVE codegen_functions(_, _, _, _)
codegen_functions(root, i, a, g) ==
    IF i >= ChildCount(root) THEN <<>>
    ELSE codegen_function(Child(root, i), <<i>>, a, g) \o codegen_functions(root, i + 1, a, g)

codegen_arm(root, a, g) ==
    <<Global("main")>>
      \o (IF root.type = "NODE_COMPILATION_UNIT" THEN codegen_functions(root, 0, a, g) ELSE <<>>)

\* ------------------------------------------------------------------------
\* An abstract register machine for the listing
\* ------------------------------------------------------------------------
\* The value of a register or memory word that the program has not set.
Unknown == 0 - 1
\* The value the caller passes for parameter i (in r_i).
ArgBase == 100
ArgValue(i) == ArgBase + i
\* The return address of the outermost call.
ReturnToCaller == 0

ArmAdd(x, y) == IF x = Unknown \/ y = Unknown THEN Unknown ELSE x + y

LabelAddress(listing, name) ==
    LET hits == {i \in 1..Len(listing) : listing[i] = Label(name)}
    IN IF hits = {} THEN 0 ELSE Min(hits)

\* The assembler accepts r0..r11 only (the generator can print r-1).
ValidInstruction(ins) ==
    /\ ins.op \in {"mov_imm", "mov", "add", "ldr", "str"} => ins.rd \in AllRegs
    /\ ins.op \in {"mov", "add"} => ins.rm \in AllRegs
    /\ ins.op = "add" => ins.rn \in AllRegs

Assembles(listing) == \A i \in 1..Len(listing) : ValidInstruction(listing[i])

MemRead(mem, addr) == IF addr \in DOMAIN mem THEN mem[addr] ELSE Unknown
MemWrite(mem, addr, v) ==
    IF addr \in DOMAIN mem THEN [mem EXCEPT ![addr] = v] ELSE mem @@ (addr :> v)

\* The machine at the call of the function labelled name.
MachineAtCall(listing, name, nparams) ==
    [ip |-> LabelAddress(listing, name),
     regs |-> [r \in AllRegs |-> IF r < nparams /\ r < MAX_PARAMS THEN ArgValue(r) ELSE Unknown],
     sp |-> 0,
     lr |-> ReturnToCaller,
     mem |-> <<>>]

\* The effect of the instruction at m.ip.
Execute(listing, m) ==
    LET ins == listing[m.ip]
        next == [m EXCEPT !.ip = m.ip + 1]
    IN IF ins.op \in {".global", "label"} THEN next
       ELSE IF ins.op = "push_lr"
       THEN [next EXCEPT !.sp = m.sp - 4, !.mem = MemWrite(m.mem, m.sp - 4, m.lr)]
       ELSE IF ins.op = "pop_pc"
       THEN [m EXCEPT !.ip = MemRead(m.mem, m.sp), !.sp = m.sp + 4]
       ELSE IF ins.op = "sub_sp" THEN [next EXCEPT !.sp = m.sp - ins.imm]
       ELSE IF ins.op = "add_sp" THEN [next EXCEPT !.sp = m.sp + ins.imm]
       ELSE IF ins.op = "mov_imm" THEN [next EXCEPT !.regs[ins.rd] = ins.imm]
       ELSE IF ins.op = "mov" THEN [next EXCEPT !.regs[ins.rd] = m.regs[ins.rm]]
       ELSE IF ins.op = "add"
       THEN [next EXCEPT !.regs[ins.rd] = ArmAdd(m.regs[ins.rn], m.regs[ins.rm])]
       ELSE IF ins.op = "ldr"
       THEN [next EXCEPT !.regs[ins.rd] = MemRead(m.mem, m.sp + ins.imm)]
       ELSE IF ins.op = "str"
       THEN [next EXCEPT !.mem = MemWrite(m.mem, m.sp + ins.imm, m.regs[ins.rd])]
       ELSE IF ins.op = "bl"
       THEN IF LabelAddress(listing, ins.label) # 0
            THEN [m EXCEPT !.ip = LabelAddress(listing, ins.label), !.lr = m.ip + 1]
            \* a function of another unit: it may change r0..r3 and lr
            ELSE [next EXCEPT !.lr = m.ip + 1,
                              !.regs = [r \in AllRegs |->
                                          IF r < MAX_PARAMS THEN Unknown ELSE m.regs[r]]]
       ELSE next

\* ------------------------------------------------------------------------
\* The compilation units explored
\* ------------------------------------------------------------------------
Names == <<"a", "b", "c", "d", "e", "g", "h", "i", "j", "k", "l", "m">>

\* `let a<int> = 1; let b<int> = 2; ...`: k declarations with literal initialisers.
LeadingDecls(k) == [i \in 1..k |-> VarDecl(Names[i], IntLiteral(i))]

LastName(k) == IF k = 0 THEN "a" ELSE Names[k]

\* `return a + b + ...;` over the k leading names (`return 7;` when k = 0).
ReturnSum(k) ==
    IF k = 0 THEN Return(IntLiteral(7))
    ELSE Return(ParseExpression([i \in 1..k |-> Identifier(Names[i])]))

\* The statement that may follow k leading declarations.
FirstStmts(k) ==
    { VarDecl("z", IntLiteral(20)),
      VarDecl("z", Identifier("a")),
      VarDecl("z", Identifier("p")),
      VarDecl("z", Add(IntLiteral(1), IntLiteral(2))),
      VarDecl("z", Add(Identifier(LastName(k)), Identifier("p"))),
      VarDecl("a", IntLiteral(30)),
      Assignment("a", Add(IntLiteral(1), IntLiteral(2))),
      Assignment(LastName(k), Identifier("p")),
      ExpressionStmt(FunctionCall("g", <<Identifier("a"), IntLiteral(5)>>)),
      ExpressionStmt(Add(Identifier("a"), IntLiteral(5))),
      ExpressionStmt(FunctionCall("g", <<FunctionCall("h", <<>>), Identifier("a")>>)),
      VarDecl("z", FunctionCall("g", <<Identifier("a")>>)),
      Return(FunctionCall("g", <<>>)),
      Return(IntLiteral(7)),
      Return(Add(Identifier("p"), Identifier("p"))) }

\* The statements that may close the body: returns, and a declaration of a
\* name the statement before may have used.
LaterStmts(k) ==
    { VarDecl("a", IntLiteral(30)),
      Return(Identifier("a")),
      Return(Identifier("z")),
      Return(Identifier(LastName(k))),
      Return(Identifier("p")),
      ReturnSum(k) }

\* The statements that may follow a body already closed by a return.
TrailingStmts(k) == { ReturnSum(k) }

\* Bodies of up to n statements after the leading declarations: any statement,
\* then a closing one, then trailing ones.
RECURSIVE Tails(_, _)
Tails(k, n) ==
    IF n = 0 THEN {<<>>}
    ELSE IF n = 1 THEN {<<>>} \cup {<<s>> : s \in FirstStmts(k) \cup LaterStmts(k)}
    ELSE Tails(k, n - 1)
           \cup {Append(t, s) : t \in {u \in Tails(k, n - 1) : Len(u) = n - 1},
                                s \in IF n = 2 THEN LaterStmts(k) ELSE TrailingStmts(k)}

\* No parameter, two, and one more than the generator's MAX_PARAMS.
ParamLists == {<<>>, <<"p", "q">>, <<"p", "q", "r", "s", "t">>}

Functions(name) ==
    UNION { { Function(name, ps, LeadingDecls(k) \o t) : t \in Tails(k, MaxTail) }
            : k \in 0..MaxDecls, ps \in ParamLists }

Units == { CompilationUnit(<<f>>) : f \in Functions("f") }

\* Units of two functions f and g.  f may call g; g calls a function h of
\* another unit.
UnitStmts(k, callee) ==
    { VarDecl("z", Add(IntLiteral(1), IntLiteral(2))),
      VarDecl("z", Identifier(LastName(k))),
      ExpressionStmt(FunctionCall(callee, <<Identifier("a"), IntLiteral(5)>>)),
      Return(Identifier(LastName(k))),
      Return(Add(Identifier("p"), Identifier("p"))) }

UnitFunctions(name, callee) ==
    UNION { { Function(name, ps, LeadingDecls(k) \o t)
                : t \in {<<>>} \cup {<<s>> : s \in UnitStmts(k, callee)} }
            : k \in 0..MaxUnitDecls, ps \in ParamLists }

PairUnits ==
    { CompilationUnit(<<f, g>>) : f \in UnitFunctions("f", "g"),
                                  g \in UnitFunctions("g", "h") }

\* ------------------------------------------------------------------------
\* State
\* ------------------------------------------------------------------------
VARIABLES
    ast,            \* the compilation unit (parser.ast_root); never changes shape
    ann,            \* path -> annotation slots of the node
    child_ctx,      \* the FunctionContext of the function being allocated
    context_stack,  \* the saved contexts (context_stack[0..context_stack_top))
    fn,             \* index of the NODE_FUNCTION child of the unit in hand
    child,          \* loop index i over the function's children
    fatal,          \* the fatal error reported before abort(), or NoFatal
    out,            \* the assembly listing printed so far
    entry,          \* index of the function the machine was started at
    mach,           \* the machine running the listing
    pc,             \* where the compilation (and then the run) stands
    lex_errors,     \* the error count lex_phase returned
    parse_errors,   \* the error count parse_phase returned
    asm_out,        \* the assembly output file: "unopened", "open" or "closed"
    history         \* which run of register_allocate_ast this is, the context
                    \* of each function at its end, and what the run before left

vars == <<ast, ann, child_ctx, context_stack, fn, child, fatal, out, entry, mach, pc,
          lex_errors, parse_errors, asm_out, history>>

\* Before any run of the allocator.
NoRun == [ann |-> <<>>, tables |-> <<>>]
FirstRun == [run |-> 1, tables |-> <<>>, first |-> NoRun]

NoMachine == [ip |-> 0, regs |-> [r \in AllRegs |-> Unknown], sp |-> 0,
              lr |-> ReturnToCaller, mem |-> <<>>]

root_ctx == ZeroContext

FunctionNode == Child(ast, fn)

Init ==
    /\ ast \in Units
    /\ ann = <<>>
    /\ child_ctx = ZeroContext
    /\ context_stack = <<>>
    /\ fn = 0
    /\ child = 0
    /\ fatal = NoFatal
    /\ out = <<>>
    /\ entry = 0
    /\ mach = NoMachine
    /\ pc = "read"
    /\ lex_errors = 0
    /\ parse_errors = 0
    /\ asm_out = "unopened"
    /\ history = FirstRun

\* The error counts that lexing and parsing a source text can report.
MaxErrors == 1
ErrorCounts == 0..MaxErrors

\* compile_file after parse_phase: a syntax error ends the compilation.
after_parse_unchecked(errors) == "enter"

after_parse(errors) == IF errors > 0 THEN "ERR_SYNTAX" ELSE "enter"

\* compile_file: the source file is read, or the compilation ends.
ReadFile ==
    /\ pc = "read"
    /\ \E ok \in BOOLEAN : pc' = IF ok THEN "lex" ELSE "ERR_FILE_OPEN"
    /\ UNCHANGED <<ast, ann, child_ctx, context_stack, fn, child, fatal, out, entry, mach,
                   lex_errors, parse_errors, asm_out, history>>

\* lex_phase and the test of its count.
LexPhase ==
    /\ pc = "lex"
    /\ \E n \in ErrorCounts :
          /\ lex_errors' = n
          /\ pc' = IF n > 0 THEN "ERR_LEXICAL" ELSE "parse"
    /\ UNCHANGED <<ast, ann, child_ctx, context_stack, fn, child, fatal, out, entry, mach,
                   parse_errors, asm_out, history>>

\* parse_phase and the test of its count; register_allocate_ast is called
\* next.
ParsePhase ==
    /\ pc = "parse"
    /\ \E n \in ErrorCounts :
          /\ parse_errors' = n
          /\ pc' = after_parse(n)
    /\ UNCHANGED <<ast, ann, child_ctx, context_stack, fn, child, fatal, out, entry, mach,
                   lex_errors, asm_out, history>>

\* allocate_registers on a NODE_FUNCTION: push the caller's context, zero the
\* child context and give the parameters their slots.
EnterFunction ==
    /\ pc = "enter"
    /\ \E st \in {enter_function(FunctionNode, ann, child_ctx)} :
          /\ context_stack' = Append(context_stack, root_ctx)
          /\ child_ctx' = st.ctx
          /\ ann' = st.ann
          /\ fatal' = st.fatal
          /\ pc' = IF Aborted(st) THEN "aborted" ELSE "annotate"
    /\ child' = 0
    /\ UNCHANGED <<ast, fn, out, entry, mach, lex_errors, parse_errors, asm_out, history>>

\* annotate_live_ranges over the whole function node, from index 0.
AnnotateLiveRanges ==
    /\ pc = "annotate"
    /\ \E st \in {annotate_live_ranges(FunctionNode, 0,
                                         AllocState(child_ctx, ann, NoFatal)).st} :
          /\ child_ctx' = st.ctx
          /\ ann' = st.ann
          /\ fatal' = st.fatal
          /\ pc' = IF Aborted(st) THEN "aborted" ELSE "body"
    /\ UNCHANGED <<ast, context_stack, fn, child, out, entry, mach,
                   lex_errors, parse_errors, asm_out, history>>

\* One iteration of the loop over the function's children.
AllocateChild ==
    /\ pc = "body"
    /\ child < ChildCount(FunctionNode)
    /\ \E st \in {allocate_registers(Child(FunctionNode, child), <<fn, child>>,
                                       AllocState(child_ctx, ann, NoFatal))} :
          /\ child_ctx' = st.ctx
          /\ ann' = st.ann
          /\ fatal' = st.fatal
          /\ pc' = IF Aborted(st) THEN "aborted" ELSE "body"
    /\ child' = child + 1
    /\ UNCHANGED <<ast, context_stack, fn, out, entry, mach, lex_errors, parse_errors, asm_out,
                   history>>

\* The end of the NODE_FUNCTION case: pop the caller's context; the unit's
\* loop moves to the next function, and register_allocate_ast returns after
\* the last.
LeaveFunction ==
    /\ pc = "body"
    /\ child = ChildCount(FunctionNode)
    /\ context_stack' = SubSeq(context_stack, 1, Len(context_stack) - 1)
    /\ fn' = fn + 1
    /\ pc' = IF fn + 1 < ChildCount(ast) THEN "enter" ELSE "allocated"
    /\ history' = [history EXCEPT !.tables = Append(@, child_ctx)]
    /\ UNCHANGED <<ast, ann, child_ctx, child, fatal, out, entry, mach,
                   lex_errors, parse_errors, asm_out>>

\* fopen(asm_file, "w") after register_allocate_ast has returned.
OpenOutput ==
    /\ pc = "allocated"
    /\ \E ok \in BOOLEAN :
          /\ asm_out' = IF ok THEN "open" ELSE asm_out
          /\ pc' = IF ok THEN "opened" ELSE "ERR_FILE_OPEN"
    /\ UNCHANGED <<ast, ann, child_ctx, context_stack, fn, child, fatal, out, entry, mach,
                   lex_errors, parse_errors, history>>

\* codegen_arm over the annotated unit, printed into the assembly file, which
\* is closed after.
Codegen ==
    /\ pc = "opened"
    /\ \E g \in Garbage : out' = codegen_arm(ast, ann, g)
    /\ asm_out' = "closed"
    /\ pc' = "generated"
    /\ UNCHANGED <<ast, ann, child_ctx, context_stack, fn, child, fatal, entry, mach,
                   lex_errors, parse_errors, history>>

\* The listing is assembled and one of its functions is called.
Launch ==
    /\ pc = "generated"
    /\ \E f \in 0..(ChildCount(ast) - 1) :
          /\ entry' = f
          /\ mach' = IF Assembles(out)
                     THEN MachineAtCall(out, Child(Child(ast, f), 0).lexeme,
                                        ParamCount(Child(ast, f)))
                     ELSE mach
    /\ pc' = IF Assembles(out) THEN "running" ELSE "rejected"
    /\ UNCHANGED <<ast, ann, child_ctx, context_stack, fn, child, fatal, out,
                   lex_errors, parse_errors, asm_out, history>>

\* One instruction.  The run ends when the entry function returns to its
\* caller, and is lost when control leaves the listing.
Step ==
    /\ pc = "running"
    /\ mach' = Execute(out, mach)
    /\ pc' = IF mach'.ip = ReturnToCaller THEN "halted"
             ELSE IF mach'.ip \in 1..Len(out) THEN "running"
             ELSE "fault"
    /\ UNCHANGED <<ast, ann, child_ctx, context_stack, fn, child, fatal, out, entry,
                   lex_errors, parse_errors, asm_out, history>>

Next ==
    \/ ReadFile
    \/ LexPhase
    \/ ParsePhase
    \/ EnterFunction
    \/ AnnotateLiveRanges
    \/ AllocateChild
    \/ LeaveFunction
    \/ OpenOutput
    \/ Codegen
    \/ Launch
    \/ Step

Spec == Init /\ [][Next]_vars

\* The same compiler over the units of two functions.
InitUnit ==
    /\ ast \in PairUnits
    /\ ann = <<>>
    /\ child_ctx = ZeroContext
    /\ context_stack = <<>>
    /\ fn = 0
    /\ child = 0
    /\ fatal = NoFatal
    /\ out = <<>>
    /\ entry = 0
    /\ mach = NoMachine
    /\ pc = "read"
    /\ lex_errors = 0
    /\ parse_errors = 0
    /\ asm_out = "unopened"
    /\ history = FirstRun

SpecUnit == InitUnit /\ [][Next]_vars

\* register_allocate_ast is called once more on the tree it has annotated:
\* a new root context and index, the annotations and the static
\* context_stack as the first run left them.
AllocateAgain ==
    /\ pc = "allocated"
    /\ history.run = 1
    /\ history' = [run |-> 2, tables |-> <<>>,
                   first |-> [ann |-> ann, tables |-> history.tables]]
    /\ fn' = 0
    /\ child' = 0
    /\ pc' = "enter"
    /\ UNCHANGED <<ast, ann, child_ctx, context_stack, fatal, out, entry, mach,
                   lex_errors, parse_errors, asm_out>>

NextTwice == Next \/ AllocateAgain

\* Units whose function has MaxDecls leading declarations, so that the pool
\* runs out.
SpillUnits ==
    { CompilationUnit(<<Function("f", ps, LeadingDecls(MaxDecls) \o t)>>) :
        ps \in ParamLists, t \in Tails(MaxDecls, MaxTail) }

\* A driver that allocates a unit twice, over the units of two functions and
\* the units that spill.
InitTwice ==
    /\ ast \in PairUnits \cup SpillUnits
    /\ ann = <<>>
    /\ child_ctx = ZeroContext
    /\ context_stack = <<>>
    /\ fn = 0
    /\ child = 0
    /\ fatal = NoFatal
    /\ out = <<>>
    /\ entry = 0
    /\ mach = NoMachine
    /\ pc = "read"
    /\ lex_errors = 0
    /\ parse_errors = 0
    /\ asm_out = "unopened"
    /\ history = FirstRun

SpecTwice == InitTwice /\ [][NextTwice]_vars

\* ------------------------------------------------------------------------
\* Reading the allocator's result
\* ------------------------------------------------------------------------
RECURSIVE NodeAt(_, _)
NodeAt(node, path) ==
    IF path = <<>> THEN node ELSE NodeAt(Child(node, path[1]), Tail(path))

\* The name a variable-carrying node stands for.
VarOf(path) ==
    LET node == NodeAt(ast, path)
    IN IF node.type \in {"NODE_VAR_DECL", "NODE_ASSIGNMENT"}
       THEN Child(node, 0).lexeme ELSE node.lexeme

ParamNames(node) ==
    {Child(node, i).lexeme : i \in {j \in 0..(ChildCount(node) - 1) :
                                       Child(node, j).type = "NODE_TYPE_PARAM"}}

PoolSize == Cardinality(PoolRegs)

Ranges(ctx) == 1..Len(ctx.live_ranges)

\* The ranges that cover statement index idx.
LiveAt(ctx, idx) ==
    {i \in Ranges(ctx) : /\ ctx.live_ranges[i].start_idx # -1
                         /\ ctx.live_ranges[i].start_idx <= idx
                         /\ idx <= ctx.live_ranges[i].end_idx}

\* The largest number of ranges that cover one index.
LiveCount(ctx) ==
    LET last == Max({ctx.live_ranges[i].end_idx : i \in Ranges(ctx)} \cup {0})
    IN Max({Cardinality(LiveAt(ctx, idx)) : idx \in 0..last})

SpilledRanges(ctx) == {i \in Ranges(ctx) : ctx.live_ranges[i].is_spilled}

\* The allocator set requires_load / requires_store on the node at path.
LoadSet(a, path) ==
    "requires_load" \in Ann(a, path).written /\ Ann(a, path).requires_load
StoreSet(a, path) ==
    "requires_store" \in Ann(a, path).written /\ Ann(a, path).requires_store

\* The loop over the children of the function in hand has ended.
FunctionAllocated == pc = "body" /\ child = ChildCount(FunctionNode)

\* ------------------------------------------------------------------------
\* Spilling: how many, where, and what the uses see
\* ------------------------------------------------------------------------
\* C1 (as stated): when at most PoolSize live ranges of a function overlap,
\* the allocated function has no spilled live range and no node of a local
\* variable carries requires_load or requires_store.
C1_NoSpillWithinPool ==
    (FunctionAllocated /\ LiveCount(child_ctx) <= PoolSize) =>
        /\ SpilledRanges(child_ctx) = {}
        /\ \A p \in DOMAIN ann :
              (p[1] = fn /\ VarOf(p) \notin ParamNames(FunctionNode)) =>
                  ~LoadSet(ann, p) /\ ~StoreSet(ann, p)

\* C2 (as stated): when more than PoolSize live ranges overlap, the number of
\* ranges marked is_spilled is the overlap minus PoolSize.
C2_SpillCount ==
    (FunctionAllocated /\ LiveCount(child_ctx) > PoolSize) =>
        Cardinality(SpilledRanges(child_ctx)) = LiveCount(child_ctx) - PoolSize

\* C3 (as stated): spilled variables have non-negative slots, no two of them
\* the same, no spilled variable has the slot of another name of the
\* function's stack-slot table (parameters included), and the table's slots
\* increase in the order they were handed out.
C3_DistinctSlots ==
    pc = "body" =>
        /\ \A k \in 1..Len(child_ctx.stack_map) : \A l \in 1..Len(child_ctx.stack_map) :
              k < l => child_ctx.stack_map[k].stack_slot < child_ctx.stack_map[l].stack_slot
        /\ \A i \in SpilledRanges(child_ctx) :
              LET r == child_ctx.live_ranges[i]
              IN /\ r.stack_slot >= 0
                 /\ \A j \in SpilledRanges(child_ctx) :
                       j # i => child_ctx.live_ranges[j].stack_slot # r.stack_slot
                 /\ \A k \in 1..Len(child_ctx.stack_map) :
                       child_ctx.stack_map[k].var_name # r.var_name
                          => child_ctx.stack_map[k].stack_slot # r.stack_slot

\* The identifier nodes of an expression, as paths.
RECURSIVE ExprIdents(_, _)
ExprIdents(node, path) ==
    IF node.type = "NODE_IDENTIFIER" THEN {path}
    ELSE UNION {ExprIdents(Child(node, i), Append(path, i)) :
                   i \in 0..(ChildCount(node) - 1)}

\* The uses of variables in the statement at path: the identifiers of its
\* initialiser, right-hand side, returned or evaluated expression.
Uses(node, path) ==
    IF node.type = "NODE_VAR_DECL" THEN ExprIdents(Child(node, 2), Append(path, 2))
    ELSE IF node.type = "NODE_ASSIGNMENT" THEN ExprIdents(Child(node, 1), Append(path, 1))
    ELSE IF node.type \in {"NODE_RETURN", "NODE_EXPRESSION"} /\ ChildCount(node) > 0
    THEN ExprIdents(Child(node, 0), Append(path, 0))
    ELSE {}

\* C4 (as stated): a use allocated when its variable is already marked
\* spilled gets requires_load with the variable's stack slot.
C4_SpilledUsesLoad ==
    [][(pc = "body" /\ pc' = "body" /\ child' = child + 1) =>
          \A p \in Uses(Child(FunctionNode, child), <<fn, child>>) :
              LET lr == find_live_range(child_ctx, VarOf(p))
              IN (lr # -1 /\ child_ctx.live_ranges[lr + 1].is_spilled) =>
                    /\ LoadSet(ann', p)
                    /\ Ann(ann', p).stack_slot = child_ctx.live_ranges[lr + 1].stack_slot
      ]_vars

\* ------------------------------------------------------------------------
\* What the source program computes
\* ------------------------------------------------------------------------
\* The value of an expression in an environment name -> value; a name that
\* has no value and the result of a call to another unit are Unknown.
RECURSIVE SrcEval(_, _)
SrcEval(node, env) ==
    IF node.type = "NODE_INT_LITERAL" THEN node.int_value
    ELSE IF node.type = "NODE_IDENTIFIER"
    THEN IF node.lexeme \in DOMAIN env THEN env[node.lexeme] ELSE Unknown
    ELSE IF node.type = "NODE_ADD"
    THEN ArmAdd(SrcEval(Child(node, 0), env), SrcEval(Child(node, 1), env))
    ELSE Unknown

SrcBind(env, name, v) ==
    IF name \in DOMAIN env THEN [env EXCEPT ![name] = v] ELSE env @@ (name :> v)

\* The parameters hold the caller's arguments.
RECURSIVE SrcParams(_, _, _, _)
SrcParams(node, i, n, env) ==
    IF i >= ChildCount(node) THEN env
    ELSE IF Child(node, i).type = "NODE_TYPE_PARAM"
    THEN SrcParams(node, i + 1, n + 1, SrcBind(env, Child(node, i).lexeme, ArgValue(n)))
    ELSE SrcParams(node, i + 1, n, env)

\* The statements of a function from child i on: the environment and the
\* returned value at the first return (or at the end of the body).
RECURSIVE SrcRun(_, _, _)
SrcRun(node, i, env) ==
    IF i >= ChildCount(node) THEN [env |-> env, returned |-> FALSE, value |-> Unknown]
    ELSE LET c == Child(node, i)
         IN IF c.type = "NODE_VAR_DECL"
            THEN SrcRun(node, i + 1, SrcBind(env, Child(c, 0).lexeme, SrcEval(Child(c, 2), env)))
            ELSE IF c.type = "NODE_ASSIGNMENT"
            THEN SrcRun(node, i + 1, SrcBind(env, Child(c, 0).lexeme, SrcEval(Child(c, 1), env)))
            ELSE IF c.type = "NODE_RETURN"
            THEN [env |-> env, returned |-> TRUE, value |-> SrcEval(Child(c, 0), env)]
            ELSE SrcRun(node, i + 1, env)

SrcResult(node) == SrcRun(node, 0, SrcParams(node, 0, 0, <<>>))

\* The children of a function that declare, or assign to, name.
Declarations(node, name) ==
    {i \in 0..(ChildCount(node) - 1) :
        Child(node, i).type = "NODE_VAR_DECL" /\ Child(Child(node, i), 0).lexeme = name}
AssignmentsTo(node, name) ==
    {i \in 0..(ChildCount(node) - 1) :
        Child(node, i).type = "NODE_ASSIGNMENT" /\ Child(Child(node, i), 0).lexeme = name}

\* The address of stack offset 0 while the body of a function called with
\* sp = 0 runs: below the saved lr and the frame.
FrameBase(node) ==
    0 - 4 - 4 * Len(Locals(node, 0, FALSE, Locals(node, 0, TRUE, <<>>)))

\* C5 (as stated): the store at the point of spill writes the evicted
\* variable's own value to its stack slot: after the run, the slot of every
\* evicted local that is defined once holds that local's value.
C5_SpillStoreKeepsValue ==
    (pc = "halted" /\ entry = fn - 1) =>
        LET f == Child(ast, entry)
        IN \A k \in 1..Len(child_ctx.stack_map) :
              LET e == child_ctx.stack_map[k]
              IN (/\ e.var_name \notin ParamNames(f)
                  /\ Cardinality(Declarations(f, e.var_name)) = 1
                  /\ AssignmentsTo(f, e.var_name) = {}
                  /\ ~SrcResult(f).returned \/ e.var_name \in DOMAIN SrcResult(f).env)
                 => MemRead(mach.mem, FrameBase(f) + 4 * e.stack_slot)
                       = SrcEval(Identifier(e.var_name), SrcResult(f).env)

\* ------------------------------------------------------------------------
\* Semantic checks
\* ------------------------------------------------------------------------
FunctionIndices == 0..(ChildCount(ast) - 1)

\* The assignments of function f to a name that is neither a parameter nor
\* declared by an earlier let.
UndeclaredAssignments(f) ==
    {i \in 0..(ChildCount(f) - 1) :
        /\ Child(f, i).type = "NODE_ASSIGNMENT"
        /\ Child(Child(f, i), 0).lexeme \notin ParamNames(f)
        /\ \A j \in Declarations(f, Child(Child(f, i), 0).lexeme) : j > i}

\* The lets of function f whose name an earlier let of f declares.
Redeclarations(f) ==
    {i \in 0..(ChildCount(f) - 1) :
        /\ Child(f, i).type = "NODE_VAR_DECL"
        /\ \E j \in Declarations(f, Child(Child(f, i), 0).lexeme) : j < i}

\* The allocator is past child i of function fi.
Past(fi, i) == fn > fi \/ (fn = fi /\ pc \in {"body", "aborted"} /\ child > i)

\* C6 (as stated): once the allocator is past an assignment to an undeclared
\* name it has aborted with 'Assignment to undeclared variable' naming it,
\* and nothing is emitted.
C6_UndeclaredAssignmentAborts ==
    \A fi \in FunctionIndices : \A i \in UndeclaredAssignments(Child(ast, fi)) :
        Past(fi, i) =>
            /\ pc = "aborted"
            /\ fatal = <<"Assignment to undeclared variable",
                         Child(Child(Child(ast, fi), i), 0).lexeme>>
            /\ out = <<>>

\* C7 (as stated): once the allocator is past a second let of a name it has
\* aborted with 'Redeclaration of variable' naming it.
C7_RedeclarationAborts ==
    \A fi \in FunctionIndices : \A i \in Redeclarations(Child(ast, fi)) :
        Past(fi, i) =>
            /\ pc = "aborted"
            /\ fatal = <<"Redeclaration of variable",
                         Child(Child(Child(ast, fi), i), 0).lexeme>>

\* C8 (as stated): every use of a parameter in an allocated statement has
\* requires_load with the parameter's stack slot.
C8_ParameterUsesLoad ==
    pc = "body" =>
        \A i \in 0..(child - 1) : \A p \in Uses(Child(FunctionNode, i), <<fn, i>>) :
            VarOf(p) \in ParamNames(FunctionNode) =>
                /\ LoadSet(ann, p)
                /\ Ann(ann, p).stack_slot = find_stack_slot(child_ctx, VarOf(p))

\* ------------------------------------------------------------------------
\* The emitted code against the source
\* ------------------------------------------------------------------------
\* An expression built from integer literals, the names in declared, and +.
RECURSIVE SumOf(_, _)
SumOf(node, declared) ==
    \/ node.type = "NODE_INT_LITERAL"
    \/ node.type = "NODE_IDENTIFIER" /\ node.lexeme \in declared
    \/ /\ node.type = "NODE_ADD"
       /\ SumOf(Child(node, 0), declared)
       /\ SumOf(Child(node, 1), declared)

\* The names the lets before child i declare.
DeclaredBefore(f, i) ==
    {Child(Child(f, j), 0).lexeme :
        j \in {k \in 0..(i - 1) : Child(f, k).type = "NODE_VAR_DECL"}}

\* A function without parameters whose body is lets of distinct names, at
\* most PoolSize of them, with initialisers over literals and earlier names,
\* closed by one return of such an expression.
LetProgram(f) ==
    LET n == ChildCount(f)
    IN /\ ParamNames(f) = {}
       /\ n >= 3
       /\ Child(f, n - 1).type = "NODE_RETURN"
       /\ SumOf(Child(Child(f, n - 1), 0), DeclaredBefore(f, n - 1))
       /\ n - 3 <= PoolSize
       /\ \A i \in 2..(n - 2) :
             /\ Child(f, i).type = "NODE_VAR_DECL"
             /\ Child(Child(f, i), 0).lexeme \notin DeclaredBefore(f, i)
             /\ SumOf(Child(Child(f, i), 2), DeclaredBefore(f, i))

\* C10 (as stated): running the code emitted for such a function, when the
\* allocator spilled nothing, leaves the value the source returns in r0 and
\* the value of each declared variable in the register assigned to it.
C10_ReturnValueInR0 ==
    (/\ pc = "halted"
     /\ entry = fn - 1
     /\ LetProgram(Child(ast, entry))
     /\ SpilledRanges(child_ctx) = {}) =>
        LET src == SrcResult(Child(ast, entry))
        IN /\ mach.regs[0] = src.value
           /\ \A i \in Ranges(child_ctx) :
                 LET r == child_ctx.live_ranges[i]
                 IN r.assigned_reg # -1 => mach.regs[r.assigned_reg] = src.env[r.var_name]

\* ------------------------------------------------------------------------
\* One context per function
\* ------------------------------------------------------------------------
\* The names of the parameters in order.
RECURSIVE ParamList(_, _)
ParamList(node, i) ==
    IF i >= ChildCount(node) THEN <<>>
    ELSE (IF Child(node, i).type = "NODE_TYPE_PARAM" THEN <<Child(node, i).lexeme>> ELSE <<>>)
         \o ParamList(node, i + 1)

\* Every lexeme below a node.
RECURSIVE Lexemes(_)
Lexemes(node) ==
    {node.lexeme} \cup UNION {Lexemes(Child(node, i)) : i \in 0..(ChildCount(node) - 1)}

\* The context when the allocation of a function begins: no pool register
\* in use or bound, no live range, the parameters' slots only.
FreshContext ==
    /\ \A r \in PoolRegs : child_ctx.reg_usage[r] = 0 /\ child_ctx.reg_variable_map[r] = NULL
    /\ child_ctx.live_ranges = <<>>
    /\ child_ctx.stack_map =
          [i \in 1..ParamCount(FunctionNode) |->
              [var_name |-> ParamList(FunctionNode, 0)[i], stack_slot |-> i - 1]]
    /\ child_ctx.stack_slot_counter = ParamCount(FunctionNode)

\* The live ranges are those of the function's own names.
OwnLiveRanges ==
    \A i \in Ranges(child_ctx) : child_ctx.live_ranges[i].var_name \in Lexemes(FunctionNode)

\* The index of the first statement: after the name, the parameters and the
\* return type.
FirstStatement(f) == ParamCount(f) + 2

\* The first statement is a let with a literal initialiser.
StartsWithLiteralLet(f) ==
    /\ ChildCount(f) > FirstStatement(f)
    /\ Child(f, FirstStatement(f)).type = "NODE_VAR_DECL"
    /\ Child(Child(f, FirstStatement(f)), 2).type = "NODE_INT_LITERAL"

ListingOf(listing, name) ==
    LET first == LabelAddress(listing, name)
        later == {i \in (first + 1)..Len(listing) : listing[i].op = "label"}
    IN IF first = 0 THEN <<>>
       ELSE SubSeq(listing, first, IF later = {} THEN Len(listing) ELSE Min(later) - 1)

\* The lines of a listing with the given mnemonics.
LinesWith(listing, ops) == {i \in 1..Len(listing) : listing[i].op \in ops}

\* The body of f is exactly `let x<int> = c; return x;` with c a literal.
SingleLetReturn(f) ==
    LET s == FirstStatement(f)
    IN /\ ChildCount(f) = s + 2
       /\ Child(f, s).type = "NODE_VAR_DECL"
       /\ Child(Child(f, s), 2).type = "NODE_INT_LITERAL"
       /\ Child(f, s + 1).type = "NODE_RETURN"
       /\ Child(Child(f, s + 1), 0).type = "NODE_IDENTIFIER"
       /\ Child(Child(f, s + 1), 0).lexeme = Child(Child(f, s), 0).lexeme

FrameSize(listing, name) ==
    LET L == ListingOf(listing, name)
    IN IF LinesWith(L, {"sub_sp"}) = {} THEN 0 ELSE L[Min(LinesWith(L, {"sub_sp"}))].imm

\* The function whose context child_ctx holds once the unit is allocated.
LastFunction == Child(ast, ChildCount(ast) - 1)

\* The stack slots the allocator used in the last function: those of the
\* load and store annotations it set, and those of the parameters.
UsedSlots ==
    {Ann(ann, p).stack_slot :
        p \in {q \in DOMAIN ann : /\ q[1] = ChildCount(ast) - 1
                                  /\ LoadSet(ann, q) \/ StoreSet(ann, q)}}
      \cup {find_stack_slot(child_ctx, name) : name \in ParamNames(LastFunction)}

\* C12 (as stated): the frame the prologue reserves covers every stack slot
\* the allocator used in the function: 4 * s < N for the slot s of every
\* load annotation, store annotation and parameter.
C12_FrameCoversSlots ==
    pc = "generated" =>
        \A s \in UsedSlots : 4 * s < FrameSize(out, Child(LastFunction, 0).lexeme)

\* The lines of the prologue of a function: from its label to the line
\* before the code of its first statement.
Prologue(listing, f) ==
    LET L == ListingOf(listing, Child(f, 0).lexeme)
        n == 2 + (IF LinesWith(L, {"sub_sp"}) = {} THEN 0 ELSE 1) + GenParamCount(f)
    IN SubSeq(L, 1, n)

\* C13 (as stated): for the parameter at position i the prologue stores
\* calling-convention register r_i at byte offset 4 * (the stack slot the
\* allocator gave the parameter), for every parameter of the function.
C13_PrologueStoresParameters ==
    pc = "generated" =>
        \A i \in 1..ParamCount(LastFunction) :
            \E k \in 1..Len(Prologue(out, LastFunction)) :
                Prologue(out, LastFunction)[k] =
                    Str(i - 1, 4 * find_stack_slot(child_ctx, ParamList(LastFunction, 0)[i]))

\* ------------------------------------------------------------------------
\* Literals
\* ------------------------------------------------------------------------
\* The integer literal nodes below a node, as paths.
RECURSIVE Literals(_, _)
Literals(node, path) ==
    IF node.type = "NODE_INT_LITERAL" THEN {path}
    ELSE UNION {Literals(Child(node, i), Append(path, i)) :
                   i \in 0..(ChildCount(node) - 1)}

Front(path) == SubSeq(path, 1, Len(path) - 1)
Last(path) == path[Len(path)]

\* The literals inside the statements of the unit's functions.
StatementLiterals == {p \in Literals(ast, <<>>) : Len(p) >= 3}

\* What the generator prints for the statement a node belongs to.
StatementCode(path, g) == codegen_child(Child(ast, path[1]), <<path[1]>>, path[2], ann, g)

\* C14 (as stated): a literal reaches its consumer by an immediate move:
\* `mov r0, #v` for a returned literal, exactly one `mov rX, #v` for the
\* initialiser of `let x`, an immediate move into the register the add reads
\* for an operand of an Add, and an immediate move that ends in r_i before
\* the bl for the i-th argument of a call.
C14_LiteralsMaterialised ==
    pc = "generated" =>
        \A p \in StatementLiterals : \A g \in Garbage :
            LET code == StatementCode(p, g)
                v == NodeAt(ast, p).int_value
                parent == NodeAt(ast, Front(p))
                k == Last(p)
            IN /\ parent.type = "NODE_RETURN" =>
                    \E i \in 1..Len(code) : code[i] = MovImm(0, v)
               /\ parent.type = "NODE_VAR_DECL" =>
                    /\ Cardinality(LinesWith(code, {"mov_imm"})) = 1
                    /\ \E i \in 1..Len(code) :
                          code[i] = MovImm(register_assigned(ann, Front(p)), v)
               /\ parent.type = "NODE_ADD" =>
                    \E i \in 1..Len(code) : \E j \in (i + 1)..Len(code) :
                        /\ code[i].op = "mov_imm" /\ code[i].imm = v
                        /\ code[j].op = "add"
                        /\ code[i].rd = IF k = 0 THEN code[j].rn ELSE code[j].rm
               /\ parent.type = "NODE_FUNCTION_CALL" =>
                    \E i \in 1..Len(code) : \E j \in (i + 1)..Len(code) :
                        /\ code[i].op = "mov_imm" /\ code[i].imm = v
                        /\ code[j] = Bl(parent.lexeme)
                        /\ \/ code[i].rd = k
                           \/ \E m \in (i + 1)..(j - 1) : code[m] = MovReg(k, code[i].rd)

\* ------------------------------------------------------------------------
\* One instruction sequence per statement
\* ------------------------------------------------------------------------
\* The statements of function f, as child indices.
Statements(f) ==
    {i \in 0..(ChildCount(f) - 1) :
        Child(f, i).type \in {"NODE_VAR_DECL", "NODE_ASSIGNMENT", "NODE_RETURN",
                              "NODE_EXPRESSION"}}

\* The lines of the epilogue of a function's listing.
Epilogue(listing, f) ==
    LET L == ListingOf(listing, Child(f, 0).lexeme)
        n == 1 + (IF LinesWith(L, {"add_sp"}) = {} THEN 0 ELSE 1)
    IN SubSeq(L, Len(L) - n + 1, Len(L))

\* The sequences of the statements from child i on, in source order.
RECURSIVE StatementSequences(_, _, _)
StatementSequences(fi, i, g) ==
    IF i >= ChildCount(Child(ast, fi)) THEN <<>>
    ELSE (IF i \in Statements(Child(ast, fi)) THEN StatementCode(<<fi, i>>, g) ELSE <<>>)
         \o StatementSequences(fi, i + 1, g)

\* The child of a statement that is its expression: the initialiser, the
\* right-hand side, the returned or the evaluated expression.
ExpressionIndex(stmt) ==
    IF stmt.type = "NODE_VAR_DECL" THEN 2
    ELSE IF stmt.type = "NODE_ASSIGNMENT" THEN 1 ELSE 0

\* What the generator prints for the expression of statement i of function fi.
ExpressionCode(fi, i, g) ==
    LET stmt == Child(Child(ast, fi), i)
    IN codegen_expr(Child(stmt, ExpressionIndex(stmt)),
                    <<fi, i, ExpressionIndex(stmt)>>, ann, g)

\* C15 (as stated): every statement of a function body (declaration,
\* assignment, return, expression statement) has its instruction sequence
\* emitted, beginning with the code of its expression, and the sequences
\* stand in source order between the prologue and the epilogue.
C15_EveryStatementEmitted ==
    pc = "generated" =>
        \A fi \in FunctionIndices :
            LET f == Child(ast, fi)
            IN \E g \in Garbage :
                  /\ ListingOf(out, Child(f, 0).lexeme) =
                        Prologue(out, f) \o StatementSequences(fi, 0, g) \o Epilogue(out, f)
                  /\ \A i \in Statements(f) :
                        LET code == StatementCode(<<fi, i>>, g)
                            e == ExpressionCode(fi, i, g)
                        IN Len(code) >= Len(e) /\ SubSeq(code, 1, Len(e)) = e

\* ------------------------------------------------------------------------
\* Calls
\* ------------------------------------------------------------------------
\* The function call nodes below a node, as paths.
RECURSIVE Calls(_, _)
Calls(node, path) ==
    (IF node.type = "NODE_FUNCTION_CALL" THEN {path} ELSE {})
      \cup UNION {Calls(Child(node, i), Append(path, i)) : i \in 0..(ChildCount(node) - 1)}

\* The register-to-register moves of a listing with source = destination.
SelfMoves(code) == {i \in 1..Len(code) : code[i].op = "mov" /\ code[i].rd = code[i].rm}

\* The code of argument k of the call at path p: its expression, its load
\* and its move into r_k.
ArgumentCode(p, k, g) ==
    LET all == codegen_call_args(NodeAt(ast, p), p, k, ann, g)
        rest == codegen_call_args(NodeAt(ast, p), p, k + 1, ann, g)
    IN SubSeq(all, 1, Len(all) - Len(rest))

\* The return statements of the unit that return the result of a call.
ReturnedCalls ==
    {p \in Calls(ast, <<>>) : Len(p) = 3 /\ NodeAt(ast, Front(p)).type = "NODE_RETURN"}

\* C16: for every call, argument k is moved into r_k only when the register
\* assigned to the argument differs from k, and the code of the call (the
\* argument moves and the move of the result out of r0) has no
\* `mov rA, rA`.  The only `mov rA, rA` of a listing is the `mov r0, r0` that
\* a return statement prints for a returned call.
C16_NoSelfMoves ==
    pc = "generated" =>
        /\ \A p \in Calls(ast, <<>>) : \A g \in Garbage :
              /\ SelfMoves(codegen_expr(NodeAt(ast, p), p, ann, g)) = {}
              /\ \A k \in 0..(ChildCount(NodeAt(ast, p)) - 1) :
                    LET code == ArgumentCode(p, k, g)
                        reg == register_assigned(ann, Append(p, k))
                    IN (code # <<>> /\ code[Len(code)] = MovReg(k, reg)) => reg # k
        /\ \A i \in SelfMoves(out) : out[i] = MovReg(0, 0) /\ ReturnedCalls # {}

\* C16 witness: `g(h(), a);` has been generated with a in r4: the result of
\* h() is left in r0 for argument 0 without a move, and a is moved into r1.
C16_Witness ==
    /\ pc = "generated"
    /\ \E p \in Calls(ast, <<>>) :
          /\ ChildCount(NodeAt(ast, p)) = 2
          /\ register_assigned(ann, Append(p, 0)) = 0
          /\ register_assigned(ann, Append(p, 1)) = FIRST_VAR_REGISTER
          /\ \E i \in 1..(Len(out) - 2) :
                /\ out[i] = Bl("h")
                /\ out[i + 1] = MovReg(1, FIRST_VAR_REGISTER)
                /\ out[i + 2] = Bl("g")

\* ------------------------------------------------------------------------
\* The annotations after allocation
\* ------------------------------------------------------------------------
\* Every node below a node, as paths.
RECURSIVE Paths(_, _)
Paths(node, path) ==
    {path} \cup UNION {Paths(Child(node, i), Append(path, i)) :
                          i \in 0..(ChildCount(node) - 1)}

\* C17 (as stated): after allocation every node whose requires_load reads
\* true has a non-negative stack_slot, and every live range marked
\* is_spilled has a non-negative stack_slot.
C17_LoadHasSlot ==
    /\ pc = "allocated" =>
          \A g \in Garbage : \A p \in Paths(ast, <<>>) :
              requires_load(ann, p, g) => stack_slot(ann, p, g) >= 0
    /\ FunctionAllocated =>
          \A i \in SpilledRanges(child_ctx) : child_ctx.live_ranges[i].stack_slot >= 0

\* The registers a node or a live range may name: none, or one of the pool.
NoneOrPool == {-1} \cup (FIRST_VAR_REGISTER..LAST_VAR_REGISTER)

AllocatorRunning == pc \in {"enter", "annotate", "body", "aborted"}

\* register_allocate_ast has returned: every function of the unit is
\* allocated and no fatal error was raised.
AllocationComplete == fn = ChildCount(ast) /\ fatal = NoFatal

\* No file has been opened for the assembly and no line of it is printed.
NoOutput == asm_out = "unopened" /\ out = <<>>

\* C19: the allocator runs only when lexing and parsing reported no error,
\* and while it runs no assembly output is open and no assembly text exists;
\* the output is opened and written only after the allocation of the whole
\* unit is complete; a fatal error of the allocator, and a lexical or syntax
\* error, leave no output at all.
C19_AllocationBeforeOutput ==
    /\ AllocatorRunning => lex_errors = 0 /\ parse_errors = 0 /\ NoOutput
    /\ ~NoOutput => AllocationComplete /\ lex_errors = 0 /\ parse_errors = 0
    /\ fatal # NoFatal => pc = "aborted" /\ NoOutput
    /\ (lex_errors > 0 \/ parse_errors > 0) => ann = <<>> /\ fn = 0 /\ NoOutput

\* C19 witness: the allocator has raised a fatal error in a unit that lexed
\* and parsed without error, and there is no output.
C19_Witness ==
    /\ pc = "aborted"
    /\ fatal # NoFatal
    /\ lex_errors = 0 /\ parse_errors = 0
    /\ asm_out = "unopened"
    /\ out = <<>>

\* ------------------------------------------------------------------------
\* Allocating twice
\* ------------------------------------------------------------------------
\* C20: a second run of register_allocate_ast on the tree the first run
\* annotated raises no fatal error and ends with the same annotation slots
\* on every node (the slots the allocator wrote, and which it wrote) and
\* the same live ranges, stack slots and register tables for each function.
C20_SecondRunIdentical ==
    /\ history.run = 2 => fatal = NoFatal
    /\ (history.run = 2 /\ pc = "allocated") =>
          /\ \A p \in Paths(ast, <<>>) : Ann(ann, p) = Ann(history.first.ann, p)
          /\ DOMAIN ann = DOMAIN history.first.ann
          /\ history.tables = history.first.tables

\* C20 witness: the second run of a unit is complete, the first run had
\* annotated nodes with loads, and a function of the unit has spilled ranges.
C20_Witness ==
    /\ history.run = 2
    /\ pc = "allocated"
    /\ Len(history.first.tables) = ChildCount(ast)
    /\ \E p \in DOMAIN history.first.ann : LoadSet(history.first.ann, p)
    /\ \E i \in 1..Len(history.tables) : SpilledRanges(history.tables[i]) # {}

\* ------------------------------------------------------------------------
\* Eviction
\* ------------------------------------------------------------------------
\* The allocator stands before a declaration: the next child of the function
\* in hand is a NODE_VAR_DECL.
BeforeDecl ==
    /\ pc = "body"
    /\ child < ChildCount(FunctionNode)
    /\ Child(FunctionNode, child).type = "NODE_VAR_DECL"

\* The state in which the declaration's register is requested
\* (register_allocator.c:334): the initialiser has been allocated.
DeclRequestState ==
    allocate_expr(Child(Child(FunctionNode, child), 2), <<fn, child, 2>>,
                  AllocState(child_ctx, ann, NoFatal))

\* The request itself: allocate_register(var, ctx, &spilled_slot).
DeclRequest ==
    allocate_register(Child(Child(FunctionNode, child), 0).lexeme, DeclRequestState)

PoolFull(ctx) == \A r \in PoolRegs : ctx.reg_usage[r] # 0

\* The names that hold stack slot s: in the stack-slot table or as the slot
\* of a spilled live range.
SlotHolders(ctx, s) ==
    {ctx.stack_map[k].var_name : k \in {j \in 1..Len(ctx.stack_map) :
                                           ctx.stack_map[j].stack_slot = s}}
    \cup {ctx.live_ranges[i].var_name : i \in {j \in SpilledRanges(ctx) :
                                           ctx.live_ranges[j].stack_slot = s}}

\* C21 (as stated): a request made with a full pool does not abort; the
\* occupant of the register it returns is the one name evicted; after the
\* request that name's live range is spilled with the slot the counter stood
\* at, no other name holds that slot, the counter has advanced by one, the
\* register is bound to the requesting name and no other register changed.
C21_EvictionSpillsVictim ==
    (BeforeDecl /\ ~Aborted(DeclRequestState) /\ PoolFull(DeclRequestState.ctx)) =>
        LET before == DeclRequestState.ctx
            got == DeclRequest
            after == got.st.ctx
            victim == before.reg_variable_map[got.reg]
            lr == find_live_range(after, victim)
        IN /\ ~Aborted(got.st)
           /\ got.reg \in PoolRegs
           /\ victim # NULL
           /\ lr # -1
           /\ after.live_ranges[lr + 1].is_spilled
           /\ after.live_ranges[lr + 1].stack_slot = before.stack_slot_counter
           /\ SlotHolders(after, before.stack_slot_counter) = {victim}
           /\ after.stack_slot_counter = before.stack_slot_counter + 1
           /\ after.reg_variable_map[got.reg] = Child(Child(FunctionNode, child), 0).lexeme
           /\ \A r \in AllRegs \ {got.reg} :
                 after.reg_variable_map[r] = before.reg_variable_map[r]

\* ------------------------------------------------------------------------
\* Assignments and declarations
\* ------------------------------------------------------------------------
\* The allocator stands before a statement of the given type.
BeforeStatement(type) ==
    /\ pc = "body"
    /\ child < ChildCount(FunctionNode)
    /\ Child(FunctionNode, child).type = type

\* The live range of a name in a context (the name has one).
RangeOf(ctx, name) == ctx.live_ranges[find_live_range(ctx, name) + 1]

\* The allocator marks a store of slot s on the node at path.
StoreTo(a, path, s) ==
    /\ StoreSet(a, path)
    /\ "stack_slot" \in Ann(a, path).written
    /\ Ann(a, path).stack_slot = s

\* C22 (as stated): allocating an assignment `x = e;` to a variable that is
\* marked spilled leaves requires_store set, with x's stack slot, on the
\* assignment node or on the node of e.
C22_SpilledAssignmentStores ==
    [][(/\ AllocateChild
        /\ BeforeStatement("NODE_ASSIGNMENT")
        /\ find_live_range(child_ctx, Child(Child(FunctionNode, child), 0).lexeme) # -1
        /\ RangeOf(child_ctx, Child(Child(FunctionNode, child), 0).lexeme).is_spilled
        /\ fatal' = NoFatal)
       => LET s == RangeOf(child_ctx, Child(Child(FunctionNode, child), 0).lexeme).stack_slot
          IN \/ StoreTo(ann', <<fn, child>>, s)
             \/ StoreTo(ann', <<fn, child, 1>>, s)]_vars

\* C23: allocating a declaration that does not abort leaves on the
\* declaration node the register that the request made after the
\* initialiser's allocation returns; the initialiser's node carries the same
\* register, the register table binds it to the declared name, and the
\* name's live range records it as assigned_reg.
C23_DeclarationBindsRegister ==
    [][(AllocateChild /\ BeforeStatement("NODE_VAR_DECL") /\ fatal' = NoFatal)
       => LET var == Child(Child(FunctionNode, child), 0).lexeme
              reg == Ann(ann', <<fn, child>>).register_assigned
          IN /\ reg = DeclRequest.reg
             /\ reg \in PoolRegs
             /\ Ann(ann', <<fn, child, 2>>).register_assigned = reg
             /\ child_ctx'.reg_variable_map[reg] = var
             /\ child_ctx'.reg_usage[reg] = 1
             /\ find_live_range(child_ctx', var) # -1
             /\ RangeOf(child_ctx', var).assigned_reg = reg]_vars

\* C23 witness: `let z<int> = 1 + 2;` as the first statement has been
\* allocated: the Add took r4, z took r5, and the Add node now carries r5.
C23_Witness ==
    /\ pc = "body"
    /\ child = FirstStatement(FunctionNode) + 1
    /\ Child(FunctionNode, child - 1).type = "NODE_VAR_DECL"
    /\ Child(Child(FunctionNode, child - 1), 2).type = "NODE_ADD"
    /\ Ann(ann, <<fn, child - 1>>).register_assigned = FIRST_VAR_REGISTER + 1
    /\ Ann(ann, <<fn, child - 1, 2>>).register_assigned = FIRST_VAR_REGISTER + 1
    /\ child_ctx.reg_variable_map[FIRST_VAR_REGISTER] = "add_result"
    /\ child_ctx.reg_variable_map[FIRST_VAR_REGISTER + 1] = "z"
    /\ RangeOf(child_ctx, "z").assigned_reg = FIRST_VAR_REGISTER + 1

\* ------------------------------------------------------------------------
\* Live ranges
\* ------------------------------------------------------------------------
\* The number of nodes of a subtree, and the number of nodes of the first n
\* subtrees of a node.
RECURSIVE Size(_)
RECURSIVE SizeBefore(_, _)
Size(node) == 1 + SizeBefore(node, ChildCount(node))
SizeBefore(node, n) ==
    IF n = 0 THEN 0 ELSE SizeBefore(node, n - 1) + Size(Child(node, n - 1))

\* The pre-order index of the node at path below node, node itself being 0.
RECURSIVE PreOrderIndex(_, _)
PreOrderIndex(node, path) ==
    IF path = <<>> THEN 0
    ELSE 1 + SizeBefore(node, path[1])
           + PreOrderIndex(Child(node, path[1]), Tail(path))

\* The indices of the nodes of function f that declare name, and of those
\* that use it (the identifier nodes of that name).
DeclIndices(f, name) ==
    {PreOrderIndex(f, p) : p \in {q \in Paths(f, <<>>) :
        /\ NodeAt(f, q).type = "NODE_VAR_DECL"
        /\ Child(NodeAt(f, q), 0).lexeme = name}}

UseIndices(f, name) ==
    {PreOrderIndex(f, p) : p \in {q \in Paths(f, <<>>) :
        /\ NodeAt(f, q).type = "NODE_IDENTIFIER"
        /\ NodeAt(f, q).lexeme = name}}

\* No name of function f is declared by two lets.
DeclaredOnce(f) ==
    \A p \in Paths(f, <<>>) :
        NodeAt(f, p).type = "NODE_VAR_DECL"
           => Cardinality(DeclIndices(f, Child(NodeAt(f, p), 0).lexeme)) = 1

\* annotate_live_ranges has traversed the function in hand.
LiveRangesAnnotated == pc = "body" /\ child = 0

\* C24 (as stated, for functions that declare no name twice): after
\* annotate_live_ranges every live range has start_idx <= end_idx, start_idx is the index of the first node that
\* declares or uses the name, and end_idx the index of the last node that
\* uses it.
C24_LiveRangeBounds ==
    (LiveRangesAnnotated /\ DeclaredOnce(FunctionNode)) =>
        \A i \in Ranges(child_ctx) :
            LET r == child_ctx.live_ranges[i]
                named == DeclIndices(FunctionNode, r.var_name)
                            \cup UseIndices(FunctionNode, r.var_name)
            IN /\ r.start_idx <= r.end_idx
               /\ named # {}
               /\ r.start_idx = Min(named)
               /\ r.end_idx = Max(UseIndices(FunctionNode, r.var_name))

\* The variable names of function f: the names declared by let or used in
\* the statements of its body (every such name is an identifier node there).
BodyNames(f) ==
    {NodeAt(f, p).lexeme : p \in {q \in Paths(f, <<>>) :
        /\ Len(q) >= 1
        /\ q[1] >= FirstStatement(f)
        /\ NodeAt(f, q).type = "NODE_IDENTIFIER"}}

\* C25 (as stated): after annotate_live_ranges the live-range table has
\* exactly one entry for each variable name of the function's body, and no
\* entry for any other name.
C25_LiveRangesAreVariables ==
    LiveRangesAnnotated =>
        /\ {child_ctx.live_ranges[i].var_name : i \in Ranges(child_ctx)}
              = BodyNames(FunctionNode)
        /\ \A i \in Ranges(child_ctx) : \A j \in Ranges(child_ctx) :
              child_ctx.live_ranges[i].var_name = child_ctx.live_ranges[j].var_name
                 => i = j

\* ------------------------------------------------------------------------
\* Where a variable's value is
\* ------------------------------------------------------------------------
\* C26 (as stated): in every state of the allocator, a live range whose
\* current_value_reg is a register r has r bound to its name in
\* reg_variable_map, and no two live ranges have the same current_value_reg.
C26_CurrentRegisterIsBound ==
    pc = "body" =>
        \A i \in Ranges(child_ctx) :
            LET r == child_ctx.live_ranges[i]
            IN r.current_value_reg # -1 =>
                 /\ child_ctx.reg_variable_map[r.current_value_reg] = r.var_name
                 /\ \A j \in Ranges(child_ctx) :
                       j # i => child_ctx.live_ranges[j].current_value_reg
                                   # r.current_value_reg

\* ------------------------------------------------------------------------
\* Aborts
\* ------------------------------------------------------------------------
MAX_VARIABLES_PER_FUNCTION == 64

\* The parameters of function f, in order, are pairwise distinct.
DistinctParams(f) ==
    \A i \in 1..Len(ParamList(f, 0)) : \A j \in 1..Len(ParamList(f, 0)) :
        ParamList(f, 0)[i] = ParamList(f, 0)[j] => i = j

\* Function f declares every local once, with a name no parameter has, before
\* any use of it, uses no other name, and has at most
\* MAX_VARIABLES_PER_FUNCTION names.
WellDeclared(f) ==
    /\ DistinctParams(f)
    /\ Redeclarations(f) = {}
    /\ UndeclaredAssignments(f) = {}
    /\ \A i \in 0..(ChildCount(f) - 1) :
          /\ Child(f, i).type = "NODE_VAR_DECL"
                => Child(Child(f, i), 0).lexeme \notin ParamNames(f)
          /\ \A p \in Uses(Child(f, i), <<i>>) :
                NodeAt(f, p).lexeme \in ParamNames(f) \cup DeclaredBefore(f, i)
    /\ Cardinality(ParamNames(f) \cup DeclaredBefore(f, ChildCount(f)))
          <= MAX_VARIABLES_PER_FUNCTION

\* C27 (as stated): the allocation of a well-declared function never aborts.
C27_WellDeclaredNeverAborts ==
    pc = "aborted" => ~WellDeclared(FunctionNode)

\* ------------------------------------------------------------------------
\* What the generator reads
\* ------------------------------------------------------------------------
\* The nodes of function fi on which the generator calls
\* emit_load_if_needed: the identifiers codegen_expr reaches, the operands of
\* every Add and the arguments of every call, and the expression of a return
\* or of an expression statement.
LoadReads(fi) ==
    UNION { LET stmt == Child(Child(ast, fi), i)
                root == <<fi, i, ExpressionIndex(stmt)>>
                nodes == Paths(Child(stmt, ExpressionIndex(stmt)), root)
            IN {p \in nodes : p # root \/ NodeAt(ast, p).type = "NODE_IDENTIFIER"}
               \cup (IF stmt.type \in {"NODE_RETURN", "NODE_EXPRESSION"}
                     THEN {root} ELSE {})
            : i \in {j \in 0..(ChildCount(Child(ast, fi)) - 1) :
                        Child(Child(ast, fi), j).type
                           \in {"NODE_VAR_DECL", "NODE_RETURN", "NODE_EXPRESSION"}} }

\* The nodes of function fi on which the generator calls
\* emit_store_if_needed: its declarations.
StoreReads(fi) ==
    {<<fi, i>> : i \in {j \in 0..(ChildCount(Child(ast, fi)) - 1) :
                           Child(Child(ast, fi), j).type = "NODE_VAR_DECL"}}

\* C28 (as stated): when the generator runs, every requires_load and
\* requires_store it reads has been written since create_node, and so has the
\* stack_slot of every node whose flag reads true.
C28_ReadsAreDefined ==
    pc = "opened" =>
        \A fi \in FunctionIndices :
            /\ \A p \in LoadReads(fi) :
                  /\ "requires_load" \in Ann(ann, p).written
                  /\ Ann(ann, p).requires_load => "stack_slot" \in Ann(ann, p).written
            /\ \A p \in StoreReads(fi) :
                  /\ "requires_store" \in Ann(ann, p).written
                  /\ Ann(ann, p).requires_store => "stack_slot" \in Ann(ann, p).written

\* ------------------------------------------------------------------------
\* The eviction victim
\* ------------------------------------------------------------------------
\* Every pool register in use is bound to a name.
UsedRegistersAreBound(ctx) ==
    \A r \in PoolRegs : ctx.reg_usage[r] # 0 => ctx.reg_variable_map[r] # NULL

\* The names a request may be made for.
RequestNames == {"z", "add_result"}

\* C29: in every state of the allocator each pool register in use is bound
\* to a name, so that with the pool full a request reaches neither a free
\* register nor the fallback `return FIRST_VAR_REGISTER`: it returns r4,
\* rebinds r4 from its occupant to the requesting name and leaves every
\* other register as it was.  The same holds of the request a declaration
\* makes after its initialiser.
C29_EvictsLowestRegister ==
    pc = "body" =>
        /\ UsedRegistersAreBound(child_ctx)
        /\ PoolFull(child_ctx) =>
              \A v \in RequestNames :
                  LET got == allocate_register(v, AllocState(child_ctx, ann, NoFatal))
                  IN /\ got.reg = FIRST_VAR_REGISTER
                     /\ child_ctx.reg_variable_map[FIRST_VAR_REGISTER] # NULL
                     /\ ~Aborted(got.st) =>
                           /\ got.st.ctx.reg_variable_map[FIRST_VAR_REGISTER] = v
                           /\ \A r \in AllRegs \ {FIRST_VAR_REGISTER} :
                                 got.st.ctx.reg_variable_map[r]
                                    = child_ctx.reg_variable_map[r]
        /\ (BeforeDecl /\ ~Aborted(DeclRequestState)) =>
              /\ UsedRegistersAreBound(DeclRequestState.ctx)
              /\ PoolFull(DeclRequestState.ctx) =>
                    DeclRequest.reg = FIRST_VAR_REGISTER

\* C29 witness: nine lets followed by `return a;` stand allocated up to the
\* return.  a, the name used last of all, was in r4 and has been evicted by
\* the ninth declaration, whose name r4 now carries.
C29_Witness ==
    /\ pc = "body"
    /\ ParamCount(FunctionNode) = 0
    /\ child = FirstStatement(FunctionNode) + 9
    /\ child < ChildCount(FunctionNode)
    /\ Child(FunctionNode, child).type = "NODE_RETURN"
    /\ PoolFull(child_ctx)
    /\ child_ctx.reg_variable_map[FIRST_VAR_REGISTER]
          = Child(Child(FunctionNode, child - 1), 0).lexeme
    /\ RangeOf(child_ctx, "a").is_spilled
    /\ RangeOf(child_ctx, "a").assigned_reg = FIRST_VAR_REGISTER
    /\ \A i \in Ranges(child_ctx) :
          child_ctx.live_ranges[i].end_idx <= RangeOf(child_ctx, "a").end_idx

\* ------------------------------------------------------------------------
\* Calls between functions of one unit
\* ------------------------------------------------------------------------
\* The machine, started at the first function of the unit, has just come
\* back from a call of that function to the function labelled callee: the
\* instruction before mach.ip is the caller's `bl callee`.
ReturnedFrom(callee) ==
    /\ pc \in {"running", "halted"}
    /\ entry = 0
    /\ mach.ip > 1
    /\ mach.ip - 1 <= Len(out)
    /\ out[mach.ip - 1] = Bl(callee)
    /\ LabelAddress(out, callee) # 0
    /\ mach.ip - 1 < LabelAddress(out, callee)

\* The declarations of function fi whose initialiser is a literal and whose
\* variable the allocator left in a pool register without a spill.
RegisterLets(fi) ==
    {i \in 0..(ChildCount(Child(ast, fi)) - 1) :
        /\ Child(Child(ast, fi), i).type = "NODE_VAR_DECL"
        /\ Child(Child(Child(ast, fi), i), 2).type = "NODE_INT_LITERAL"
        /\ Ann(ann, <<fi, i>>).register_assigned \in PoolRegs
        /\ ~StoreSet(ann, <<fi, i>>)}

\* C30 (as stated): when a call from the first function of the unit to the
\* second has returned, every variable the caller declared before the call
\* and holds in a pool register still has its value there.
C30_CalleePreservesPoolRegisters ==
    ReturnedFrom("g") =>
        \A i \in RegisterLets(0) :
            mach.regs[Ann(ann, <<0, i>>).register_assigned]
               = Child(Child(Child(ast, 0), i), 2).int_value

====
